---- MODULE Spec2Model ----
(***************************************************************************)
(* Model of the MindfulAI backend: the audio upload / transcription /      *)
(* journal endpoints of src/app/api/endpoints/audio.py, the transcription  *)
(* service and the text normaliser of src/app/services/audio_processor.py, *)
(* the request schema of src/app/schemas/journal.py and the plain journal  *)
(* endpoint of src/main.py.                                                *)
(*                                                                         *)
(* Text is a sequence of one-character strings.  A path is a record        *)
(* [stem, ext]: the directory and base name on one side, the extension     *)
(* (with its dot) on the other.  Storage is the set of paths that exist.   *)
(***************************************************************************)
EXTENDS Integers, Sequences, FiniteSets, TLC

VARIABLES
    files,      \* paths that exist on storage
    db,         \* committed rows of journal_entries, id = index
    model,      \* audio_processor._model is not None
    processor,  \* audio_processor._processor is not None
    loads,      \* completed from_pretrained calls: [processor, model]
    loop,       \* the task running on the event loop (0: the loop is free)
    req,        \* per request: handler, position, locals and response
    cleanIn,    \* the text handed to clean_text
    cleanOut    \* the results of applying clean_text once, twice, ...

vars == <<files, db, model, processor, loads, loop, req, cleanIn, cleanOut>>

\* ---------------------------------------------------------------- bounds
NReq == 2          \* requests served by the audio application
MaxEntries == 2    \* rows of journal_entries
MaxLen == 3        \* length of the texts handed to clean_text

Reqs == 1..NReq

\* ---------------------------------------------------------------- text
Whitespace == {" ", "\t"}
Terminators == {".", "!", "?"}
Alphabet == Whitespace \cup {"a", "A", ".", "?"}

\* lower-case / upper-case pairs of the letters the model uses
CasePairs ==
    { <<"a", "A">>, <<"w", "W">>, <<"v", "V">>, <<"m", "M">>, <<"p", "P">>,
      <<"h", "H">>, <<"i", "I">>, <<"t", "T">>, <<"x", "X">>, <<"g", "G">>,
      <<"o", "O">>, <<"e", "E">>, <<"b", "B">> }

upper(c) == IF \E p \in CasePairs : p[1] = c
            THEN (CHOOSE p \in CasePairs : p[1] = c)[2] ELSE c

lower(c) == IF \E p \in CasePairs : p[2] = c
            THEN (CHOOSE p \in CasePairs : p[2] = c)[1] ELSE c

str_lower(s) == [i \in 1..Len(s) |-> lower(s[i])]

\* str.split(): the maximal runs of non-whitespace characters
RECURSIVE split(_)
split(s) ==
    IF s = <<>> THEN <<>>
    ELSE IF Head(s) \in Whitespace THEN split(Tail(s))
    ELSE LET n == IF \E i \in 1..Len(s) : s[i] \in Whitespace
                  THEN (CHOOSE i \in 1..Len(s) :
                            /\ s[i] \in Whitespace
                            /\ \A j \in 1..(i - 1) : s[j] \notin Whitespace) - 1
                  ELSE Len(s)
         IN  <<SubSeq(s, 1, n)>> \o split(SubSeq(s, n + 1, Len(s)))

\* " ".join(words)
RECURSIVE join(_)
join(ws) ==
    IF ws = <<>> THEN <<>>
    ELSE IF Len(ws) = 1 THEN ws[1]
    ELSE ws[1] \o <<" ">> \o join(Tail(ws))

\* str.strip()
RECURSIVE strip(_)
strip(s) ==
    IF s = <<>> THEN s
    ELSE IF Head(s) \in Whitespace THEN strip(Tail(s))
    ELSE IF s[Len(s)] \in Whitespace THEN strip(SubSeq(s, 1, Len(s) - 1))
    ELSE s

endswith(s, suffixes) == s # <<>> /\ s[Len(s)] \in suffixes

\* clean_text with the terminal period appended unconditionally
clean_text_always_period(text) ==
    IF text = <<>> THEN <<>>
    ELSE LET t == strip(join(split(text)))
         IN  IF t = <<>> THEN t
             ELSE <<upper(t[1])>> \o Tail(t) \o <<".">>

clean_text(text) ==
    IF text = <<>> THEN <<>>
    ELSE LET t == strip(join(split(text)))
         IN  IF t = <<>> THEN t
             ELSE LET c == <<upper(t[1])>> \o Tail(t)
                  IN  IF endswith(c, Terminators) THEN c ELSE c \o <<".">>

RECURSIVE Texts(_)
Texts(n) == IF n = 0 THEN {<<>>}
            ELSE Texts(n - 1) \cup
                 {Append(s, c) : s \in {t \in Texts(n - 1) : Len(t) = n - 1}, c \in Alphabet}

\* ---------------------------------------------------------------- paths
DotWav == <<".", "w", "a", "v">>
DotMp3 == <<".", "m", "p", "3">>
DotM4a == <<".", "m", "4", "a">>
DotOgg == <<".", "o", "g", "g">>
DotWebm == <<".", "w", "e", "b", "m">>
DotTxt == <<".", "t", "x", "t">>

\* the allow-list with webm forgotten
AllowedExtsNoWebm == {DotWav, DotMp3, DotM4a, DotOgg}

\* the allow-list of transcribe_audio_file
AllowedExts == {DotWav, DotMp3, DotM4a, DotOgg, DotWebm}

\* os.path.splitext on a name without directory separators: <<root, ext>>.
\* The extension starts at the last dot, unless only dots precede it.
splitext(p) ==
    LET dots == {i \in 1..Len(p) : p[i] = "."}
        d    == IF dots = {} THEN 0 ELSE CHOOSE i \in dots : \A j \in dots : j <= i
    IN  IF d > 0 /\ \E i \in 1..(d - 1) : p[i] # "."
        THEN <<SubSeq(p, 1, d - 1), SubSeq(p, d, Len(p))>>
        ELSE <<p, <<>> >>

\* file names a client may declare for its upload
Filenames ==
    { <<"a">> \o DotWav, <<"a">> \o DotMp3, <<"a">> \o DotM4a, <<"a">> \o DotOgg,
      <<"a">> \o DotWebm, <<"a", ".", "M", "P", "3">>,
      <<"a">> \o DotTxt, <<"a">> \o DotWav \o DotTxt, DotWav, <<"a">> }

NoPath == [stem |-> 0, ext |-> <<>>]                \* None
MissingPath == [stem |-> 0 - 1, ext |-> DotMp3]     \* names a file nobody stored
StoredUpload == [stem |-> 0 - 2, ext |-> DotMp3]    \* an upload kept from an earlier run

\* os.path.join(UPLOAD_DIR, f"{uuid.uuid4()}{file_ext}"): the uuid is the
\* request's own number, which no other request shares
UploadPath(r, ext) == [stem |-> r, ext |-> ext]

\* audio_file_path.lower().endswith('.wav')
EndsWithWav(p) == str_lower(p.ext) = DotWav

\* f"{os.path.splitext(audio_file_path)[0]}.{target_format}"
WavPathOf(p) == [stem |-> p.stem, ext |-> DotWav]

\* ---------------------------------------------------------------- schema
\* fields of app.schemas.journal.JournalEntryCreate marked required: Field(...)
RequiredFields == {"content", "user_id"}

\* JournalEntryCreate(**kwargs) validates: every required field is given
JournalEntryCreate(given) == RequiredFields \subseteq given

Entry(content, audio_path) == [content |-> content, audio_path |-> audio_path, user_id |-> 1]

\* texts a client posts, and the text the speech model returns
EntryTexts == { <<" ", "h", "i">> }
Transcript == <<"o", "k">>

\* ---------------------------------------------------------------- state
UploadKinds == {"transcribe", "journal_audio"}
JournalKinds == {"journal_audio", "journal_text"}

\* a request slot before its request arrives
Idle ==
    [ kind   |-> "",        \* the endpoint the request is for
      pc     |-> "idle",    \* where its handler stands
      fname  |-> <<>>,      \* audio_file.filename
      body   |-> <<>>,      \* content of POST /api/journal/text/
      jid    |-> 0,         \* journal_id of GET /api/journal/{id}/transcribe
      path   |-> NoPath,    \* file_path, or journal.audio_path
      cur    |-> NoPath,    \* audio_file_path inside transcribe_audio
      text   |-> <<>>,      \* the transcription, or the cleaned text
      closed |-> FALSE,     \* upload_file.close() has run
      ran    |-> FALSE,     \* transcribe_audio has been entered
      err    |-> "",        \* the stage that raised
      status |-> 0 ]        \* HTTP status of the response (0: none yet)

InitServer ==
    /\ db = <<>>
    /\ model = FALSE
    /\ processor = FALSE
    /\ loads = [processor |-> 0, model |-> 0]
    /\ loop = 0
    /\ req = [r \in Reqs |-> Idle]
    /\ cleanOut = <<>>

Init ==
    /\ InitServer
    /\ cleanIn = <<>>
    /\ files = {}

\* a coroutine runs when the loop is free or already its own
CanRun(r) == loop \in {0, r}

Respond(q, code, stage) == [q EXCEPT !.pc = "done", !.status = code, !.err = stage]

\* ---------------------------------------------------------------- clients
ArriveUpload(r) ==
    /\ req[r].pc = "idle"
    /\ \E k \in UploadKinds, fn \in Filenames :
          req' = [req EXCEPT ![r] = [@ EXCEPT !.kind = k, !.pc = "start", !.fname = fn]]
    /\ UNCHANGED <<files, db, model, processor, loads, loop, cleanIn, cleanOut>>

ArriveText(r) ==
    /\ req[r].pc = "idle"
    /\ \E c \in EntryTexts :
          req' = [req EXCEPT ![r] = [@ EXCEPT !.kind = "journal_text", !.pc = "start", !.body = c]]
    /\ UNCHANGED <<files, db, model, processor, loads, loop, cleanIn, cleanOut>>

ArriveRetranscribe(r) ==
    /\ req[r].pc = "idle"
    /\ \E id \in 1..(MaxEntries + 1) :
          req' = [req EXCEPT ![r] = [@ EXCEPT !.kind = "retranscribe", !.pc = "start", !.jid = id]]
    /\ UNCHANGED <<files, db, model, processor, loads, loop, cleanIn, cleanOut>>

\* audio paths a client knows: those POST /api/transcribe/ returned to it
ReturnedPaths ==
    {req[r].path : r \in {x \in Reqs : req[x].kind = "transcribe" /\ req[x].status = 200}}
        \cup (files \cap {StoredUpload})

\* POST /api/journal/ of src/main.py: a separate application on the same table
create_journal_entry ==
    /\ Len(db) < MaxEntries
    /\ \E c \in EntryTexts, ap \in {NoPath, MissingPath} \cup ReturnedPaths :
          db' = Append(db, Entry(c, ap))
    /\ UNCHANGED <<files, model, processor, loads, loop, req, cleanIn, cleanOut>>

\* ---------------------------------------------------------------- upload
\* transcribe_audio_file up to its first suspension: the extension check,
\* the new name, and save_upload_file opening the destination
transcribe_audio_file(r) ==
    /\ req[r].pc = "start"
    /\ req[r].kind \in UploadKinds
    /\ CanRun(r)
    /\ loop' = 0
    /\ LET file_ext  == splitext(str_lower(req[r].fname))[2]
           file_path == UploadPath(r, file_ext)
       IN  IF file_ext \notin AllowedExts
           THEN /\ req' = [req EXCEPT ![r] = Respond(@, 400, "validate")]
                /\ files' = files
           ELSE \/ /\ files' = files \cup {file_path}      \* open(destination, "wb")
                   /\ req' = [req EXCEPT ![r] = [@ EXCEPT !.pc = "write", !.path = file_path]]
                \/ /\ files' = files \ {file_path}         \* open raised: except
                   /\ req' = [req EXCEPT ![r] =
                                 [@ EXCEPT !.pc = "close", !.path = file_path, !.err = "save"]]
    /\ UNCHANGED <<db, model, processor, loads, cleanIn, cleanOut>>

\* save_upload_file: the chunk loop and the except branch, up to the
\* suspension at `await upload_file.close()` in the finally.  The loop also
\* suspends at every `await upload_file.read`; storage and the handler's
\* locals are then as they are at "write".
save_upload_file(r) ==
    /\ req[r].pc = "write"
    /\ CanRun(r)
    /\ loop' = 0
    /\ \/ /\ files' = files                               \* return destination
          /\ req' = [req EXCEPT ![r] = [@ EXCEPT !.pc = "close"]]
       \/ /\ files' = files \ {req[r].path}               \* a read or a write raised
          /\ req' = [req EXCEPT ![r] = [@ EXCEPT !.pc = "close", !.err = "save"]]
    /\ UNCHANGED <<db, model, processor, loads, cleanIn, cleanOut>>

\* save_upload_file resumes after upload_file.close(): the HTTPException of
\* the except branch reaches the client, or the handler goes on into
\* transcribe_audio without suspending
save_upload_file_close(r) ==
    /\ req[r].pc = "close"
    /\ CanRun(r)
    /\ IF req[r].err = "save"
       THEN /\ req' = [req EXCEPT ![r] = Respond([@ EXCEPT !.closed = TRUE], 500, "save")]
            /\ loop' = 0
       ELSE /\ req' = [req EXCEPT ![r] =
                         [@ EXCEPT !.pc = "load", !.cur = req[r].path, !.closed = TRUE]]
            /\ loop' = r
    /\ UNCHANGED <<files, db, model, processor, loads, cleanIn, cleanOut>>

\* ---------------------------------------------------------------- transcription
\* load_glm_model on the globals (m, p) and the load counts n; `outcome` is
\* what the two from_pretrained calls do if they are made
load_glm_model(m, p, n, outcome) ==
    IF ~m \/ ~p
    THEN CASE outcome = "ok" ->
                [model |-> TRUE, processor |-> TRUE, raised |-> FALSE,
                 loads |-> [processor |-> n.processor + 1, model |-> n.model + 1]]
           [] outcome = "processor_fails" ->
                [model |-> m, processor |-> p, raised |-> TRUE, loads |-> n]
           [] outcome = "model_fails" ->
                [model |-> m, processor |-> TRUE, raised |-> TRUE,
                 loads |-> [n EXCEPT !.processor = @ + 1]]
    ELSE [model |-> m, processor |-> p, raised |-> FALSE, loads |-> n]

LoadOutcomes == {"ok", "processor_fails", "model_fails"}

\* transcribe_audio: entry and `await load_glm_model()`, which never suspends
transcribe_audio_load(r) ==
    /\ req[r].pc = "load"
    /\ CanRun(r)
    /\ loop' = r
    /\ \E outcome \in LoadOutcomes :
          LET got == load_glm_model(model, processor, loads, outcome)
          IN  /\ model' = got.model
              /\ processor' = got.processor
              /\ loads' = got.loads
              /\ req' = [req EXCEPT ![r] =
                    [@ EXCEPT !.ran = TRUE,
                              !.err = IF got.raised THEN "load" ELSE @,
                              !.pc  = IF got.raised THEN "return" ELSE "convert"]]
    /\ UNCHANGED <<files, db, cleanIn, cleanOut>>

\* transcribe_audio: convert_audio_format for a path that is not .wav
convert_audio_format(r) ==
    /\ req[r].pc = "convert"
    /\ loop = r
    /\ IF EndsWithWav(req[r].cur)
       THEN /\ files' = files
            /\ req' = [req EXCEPT ![r] = [@ EXCEPT !.pc = "decode"]]
       ELSE \/ /\ files' = files \cup {WavPathOf(req[r].cur)}     \* audio.export
               /\ req' = [req EXCEPT ![r] =
                             [@ EXCEPT !.pc = "decode", !.cur = WavPathOf(@)]]
            \/ /\ files' = files                                   \* from_file raised
               /\ req' = [req EXCEPT ![r] = [@ EXCEPT !.pc = "return", !.err = "convert"]]
    /\ UNCHANGED <<db, model, processor, loads, loop, cleanIn, cleanOut>>

\* transcribe_audio: AudioSegment.from_file, resampling, feature extraction,
\* and the call of model.generate, made on the event loop
transcribe_audio_decode(r) ==
    /\ req[r].pc = "decode"
    /\ loop = r
    /\ \/ req' = [req EXCEPT ![r] = [@ EXCEPT !.pc = "generate"]]
       \/ req' = [req EXCEPT ![r] = [@ EXCEPT !.pc = "return", !.err = "decode"]]
    /\ UNCHANGED <<files, db, model, processor, loads, loop, cleanIn, cleanOut>>

\* transcribe_audio: model.generate comes back, batch_decode, metadata
transcribe_audio_generate(r) ==
    /\ req[r].pc = "generate"
    /\ loop = r
    /\ \/ req' = [req EXCEPT ![r] = [@ EXCEPT !.pc = "return", !.text = Transcript]]
       \/ req' = [req EXCEPT ![r] = [@ EXCEPT !.pc = "return", !.err = "infer"]]
    /\ UNCHANGED <<files, db, model, processor, loads, loop, cleanIn, cleanOut>>

\* locals() of transcribe_audio when its finally block runs: the path-valued
\* names; the converted path is bound to audio_file_path
transcribe_audio_locals(q) == [audio_file_path |-> q.cur]

\* the finally block of transcribe_audio
transcribe_audio_finally(fs, locs) ==
    IF "temp_path" \in DOMAIN locs /\ locs["temp_path"] \in fs
    THEN fs \ {locs["temp_path"]}
    ELSE fs

\* the except branch of transcribe_audio_file around transcribe_audio
unlink_upload(fs, file_path) == IF file_path \in fs THEN fs \ {file_path} ELSE fs

\* transcribe_audio returns or raises: its finally block, then the caller
\* up to the caller's next suspension
transcribe_audio_return(r) ==
    /\ req[r].pc = "return"
    /\ loop = r
    /\ loop' = 0
    /\ LET q      == req[r]
           fs     == transcribe_audio_finally(files, transcribe_audio_locals(q))
           raised == q.err # ""
       IN  CASE q.kind = "transcribe" ->
                  IF raised
                  THEN /\ files' = unlink_upload(fs, q.path)
                       /\ req' = [req EXCEPT ![r] = Respond(@, 500, q.err)]
                  ELSE /\ files' = fs
                       /\ req' = [req EXCEPT ![r] = Respond(@, 200, "")]
             [] q.kind = "journal_audio" ->
                  IF raised
                  THEN /\ files' = unlink_upload(fs, q.path)
                       /\ req' = [req EXCEPT ![r] = Respond(@, 500, q.err)]
                  ELSE /\ files' = fs
                       \* JournalEntryCreate(content=..., audio_path=...); a
                       \* ValidationError is caught by `except Exception`
                       /\ IF JournalEntryCreate({"content", "audio_path"})
                          THEN req' = [req EXCEPT ![r] = [@ EXCEPT !.pc = "commit"]]
                          ELSE req' = [req EXCEPT ![r] = Respond(@, 500, "build")]
             [] q.kind = "retranscribe" ->
                  /\ files' = fs
                  /\ IF raised
                     THEN req' = [req EXCEPT ![r] = Respond(@, 500, q.err)]
                     ELSE req' = [req EXCEPT ![r] = [@ EXCEPT !.pc = "commit"]]
    /\ UNCHANGED <<db, model, processor, loads, cleanIn, cleanOut>>

\* ---------------------------------------------------------------- journal
\* create_journal_from_text up to `await ... db.commit`
create_journal_from_text(r) ==
    /\ req[r].pc = "start"
    /\ req[r].kind = "journal_text"
    /\ CanRun(r)
    /\ loop' = 0
    /\ LET cleaned_text == clean_text(req[r].body)
       IN  IF JournalEntryCreate({"content", "audio_path"})
           THEN req' = [req EXCEPT ![r] = [@ EXCEPT !.pc = "commit", !.text = cleaned_text]]
           ELSE req' = [req EXCEPT ![r] = Respond([@ EXCEPT !.text = cleaned_text], 500, "build")]
    /\ UNCHANGED <<files, db, model, processor, loads, cleanIn, cleanOut>>

\* transcribe_existing_journal_audio without the os.path.exists test
transcribe_existing_journal_audio_unchecked(r) ==
    /\ req[r].pc = "start"
    /\ req[r].kind = "retranscribe"
    /\ CanRun(r)
    /\ LET id == req[r].jid
       IN  IF id \notin DOMAIN db
           THEN /\ req' = [req EXCEPT ![r] = Respond(@, 404, "not_found")]
                /\ loop' = 0
           ELSE IF db[id].audio_path = NoPath
           THEN /\ req' = [req EXCEPT ![r] = Respond(@, 400, "no_audio")]
                /\ loop' = 0
           ELSE /\ req' = [req EXCEPT ![r] =
                             [@ EXCEPT !.pc = "load", !.path = db[id].audio_path,
                                       !.cur = db[id].audio_path]]
                /\ loop' = r
    /\ UNCHANGED <<files, db, model, processor, loads, cleanIn, cleanOut>>

\* transcribe_existing_journal_audio up to the call of transcribe_audio,
\* which it enters without suspending
transcribe_existing_journal_audio(r) ==
    /\ req[r].pc = "start"
    /\ req[r].kind = "retranscribe"
    /\ CanRun(r)
    /\ LET id == req[r].jid
       IN  IF id \notin DOMAIN db
           THEN /\ req' = [req EXCEPT ![r] = Respond(@, 404, "not_found")]
                /\ loop' = 0
           ELSE IF db[id].audio_path = NoPath \/ db[id].audio_path \notin files
           THEN /\ req' = [req EXCEPT ![r] = Respond(@, 400, "no_audio")]
                /\ loop' = 0
           ELSE /\ req' = [req EXCEPT ![r] =
                             [@ EXCEPT !.pc = "load", !.path = db[id].audio_path,
                                       !.cur = db[id].audio_path]]
                /\ loop' = r
    /\ UNCHANGED <<files, db, model, processor, loads, cleanIn, cleanOut>>

\* what the session's commit writes for request q
CommitEffect(rows, q) ==
    IF q.kind = "retranscribe"
    THEN [rows EXCEPT ![q.jid].content = q.text]
    ELSE Append(rows, Entry(q.text, q.path))

\* run_in_executor(None, db.commit): the commit, on a worker thread
db_commit(r) ==
    /\ req[r].pc = "commit"
    /\ req[r].kind \in JournalKinds => Len(db) < MaxEntries
    /\ \/ /\ db' = CommitEffect(db, req[r])
          /\ req' = [req EXCEPT ![r] = [@ EXCEPT !.pc = "resume"]]
       \/ /\ db' = db                                 \* the commit raised
          /\ req' = [req EXCEPT ![r] = [@ EXCEPT !.pc = "resume", !.err = "commit"]]
    /\ UNCHANGED <<files, model, processor, loads, loop, cleanIn, cleanOut>>

\* the handler resumes on the event loop after the commit: the response,
\* or db.rollback() and the 500
after_commit(r) ==
    /\ req[r].pc = "resume"
    /\ CanRun(r)
    /\ loop' = 0
    /\ req' = [req EXCEPT ![r] =
                  IF @.err = "commit" THEN Respond(@, 500, "commit") ELSE Respond(@, 200, "")]
    /\ UNCHANGED <<files, db, model, processor, loads, cleanIn, cleanOut>>

\* a step of request r's handler
Step(r) ==
    \/ transcribe_audio_file(r)
    \/ save_upload_file(r)
    \/ save_upload_file_close(r)
    \/ transcribe_audio_load(r)
    \/ convert_audio_format(r)
    \/ transcribe_audio_decode(r)
    \/ transcribe_audio_generate(r)
    \/ transcribe_audio_return(r)
    \/ create_journal_from_text(r)
    \/ transcribe_existing_journal_audio(r)
    \/ db_commit(r)
    \/ after_commit(r)

Next ==
    \/ create_journal_entry
    \/ \E r \in Reqs :
          \/ ArriveUpload(r)
          \/ ArriveText(r)
          \/ ArriveRetranscribe(r)
          \/ Step(r)

Spec == Init /\ [][Next]_vars

\* ---------------------------------------------------------------- clean_text alone
InitClean ==
    /\ InitServer
    /\ files = {}
    /\ cleanIn \in Texts(MaxLen)

CleanApply ==
    /\ Len(cleanOut) < 2
    /\ cleanOut' = Append(cleanOut,
                          clean_text(IF cleanOut = <<>> THEN cleanIn ELSE cleanOut[Len(cleanOut)]))
    /\ UNCHANGED <<files, db, model, processor, loads, loop, req, cleanIn>>

NextClean == CleanApply

SpecClean == InitClean /\ [][NextClean]_vars

\* ---------------------------------------------------------------- upload handling alone
\* requests that upload, followed to the end of save_upload_file: a handler
\* that has left it holds the event loop, on its way into transcribe_audio
NextUpload ==
    \E r \in Reqs :
        \/ ArriveUpload(r)
        \/ transcribe_audio_file(r)
        \/ save_upload_file(r)
        \/ save_upload_file_close(r)

SpecUpload == Init /\ [][NextUpload]_vars

\* ---------------------------------------------------------------- re-transcription alone
\* a process started over a storage that holds one earlier upload
InitStored ==
    /\ InitServer
    /\ cleanIn = <<>>
    /\ files = {StoredUpload}

NextRetranscribe ==
    \/ create_journal_entry
    \/ \E r \in Reqs :
          \/ ArriveRetranscribe(r)
          \/ transcribe_existing_journal_audio(r)
          \/ transcribe_audio_load(r)
          \/ convert_audio_format(r)
          \/ transcribe_audio_decode(r)
          \/ transcribe_audio_generate(r)
          \/ transcribe_audio_return(r)
          \/ db_commit(r)
          \/ after_commit(r)

SpecRetranscribe == InitStored /\ [][NextRetranscribe]_vars

\* ---------------------------------------------------------------- properties
Answered(r) == req[r].pc = "done"
OwnFiles(r) == {p \in files : p.stem = r}
TranscribeStages == {"load", "convert", "decode", "infer"}

\* C1: once transcribe_audio has returned or raised for a request whose input
\* was converted, the intermediate WAV file that convert_audio_format wrote no
\* longer exists on storage.
C1_TempWavRemoved ==
    \A r \in Reqs :
        (req[r].ran /\ req[r].pc \in {"commit", "resume", "done"} /\ req[r].cur # req[r].path)
            => req[r].cur \notin files

\* C2: when POST /api/transcribe/ answers 500 because transcription failed after
\* the upload was saved, no file written by that request remains on storage.
C2_NoFileAfterFailedTranscription ==
    \A r \in Reqs :
        (req[r].kind = "transcribe" /\ Answered(r) /\ req[r].status = 500
            /\ req[r].err \in TranscribeStages)
            => OwnFiles(r) = {}

\* C3: POST /api/journal/audio/ either succeeds with a persisted entry whose
\* audio_path names an existing file, or fails and leaves neither a persisted
\* entry nor the file it uploaded.
C3_AudioJournalAllOrNothing ==
    \A r \in Reqs :
        (req[r].kind = "journal_audio" /\ Answered(r)) =>
            \/ /\ req[r].status = 200
               /\ \E i \in DOMAIN db : db[i].audio_path = req[r].path
               /\ req[r].path \in files
            \/ /\ req[r].status # 200
               /\ \A i \in DOMAIN db : db[i].audio_path.stem # r
               /\ req[r].path \notin files

\* C4: POST /api/journal/text/ whose commit does not fail answers 200 and has
\* persisted an entry with content clean_text(content) and audio_path null.
C4_TextJournalPersists ==
    \A r \in Reqs :
        (req[r].kind = "journal_text" /\ Answered(r) /\ req[r].err # "commit") =>
            /\ req[r].status = 200
            /\ \E i \in DOMAIN db : db[i] = Entry(clean_text(req[r].body), NoPath)

\* the claim's own reading of "the lower-cased extension is one of wav, mp3,
\* m4a, ogg, webm": the lower-cased name ends in a dot and one of these, after
\* a root that is not empty
SupportedExtOf(fn) ==
    LET low == str_lower(fn)
        hit == {e \in { <<"w", "a", "v">>, <<"m", "p", "3">>, <<"m", "4", "a">>,
                        <<"o", "g", "g">>, <<"w", "e", "b", "m">> } :
                   /\ Len(low) > Len(e) + 1
                   /\ SubSeq(low, Len(low) - Len(e), Len(low)) = <<".">> \o e}
    IN  IF hit = {} THEN <<>> ELSE <<".">> \o (CHOOSE e \in hit : TRUE)

\* C5: an upload whose lower-cased extension is wav, mp3, m4a, ogg or webm is
\* never answered 400 and is saved under a fresh name with that extension (the
\* file exists when save_upload_file ends, unless the write itself failed and
\* was answered 500); any other upload is answered 400 and none of its files
\* exists.
C5_ExtensionAllowList ==
    \A r \in Reqs :
        (req[r].kind \in UploadKinds /\ req[r].pc \notin {"idle", "start"}) =>
            LET ext == SupportedExtOf(req[r].fname)
            IN  IF ext # <<>>
                THEN /\ req[r].status # 400
                     /\ req[r].path = [stem |-> r, ext |-> ext]
                     /\ req[r].pc = "load" => req[r].path \in files
                     /\ req[r].err = "save" =>
                            /\ OwnFiles(r) = {}
                            /\ req[r].pc \in {"close", "done"}
                            /\ Answered(r) => req[r].status = 500
                ELSE /\ Answered(r)
                     /\ req[r].status = 400
                     /\ OwnFiles(r) = {}

\* C5 witness: an upload named a.MP3 has been saved as <uuid>.mp3, one named
\* a.webm as well, and an upload named a.wav.txt has been answered 400.
C5_Witness ==
    \E r1, r2 \in Reqs :
        /\ req[r1].pc = "load"
        /\ req[r1].fname \in { <<"a", ".", "M", "P", "3">>, <<"a">> \o DotWebm }
        /\ req[r1].path \in files
        /\ req[r2].fname = <<"a">> \o DotWav \o DotTxt
        /\ req[r2].status = 400

\* C6: the upload stream is closed on every exit path of the upload handling:
\* after a successful save, after the extension is rejected, after a write failure.
C6_StreamClosedOnEveryExit ==
    \A r \in Reqs :
        (req[r].kind \in UploadKinds /\ req[r].pc \notin {"idle", "start", "write", "close"})
            => req[r].closed

\* C7: a GET /api/journal/{id}/transcribe for an id with no entry is answered
\* 404, one for an entry with no audio reference or a missing file is answered
\* 400; either way the handler ends there, has run no transcription, and every
\* journal entry, the storage and the model are as they were.
C7_RejectedRetranscribeChangesNothing ==
    [][\A r \in Reqs :
          (req[r].kind = "retranscribe" /\ req[r].pc = "start" /\ req'[r].pc # "start") =>
              LET id == req[r].jid
                  untouched == /\ req'[r].pc = "done"
                               /\ ~req'[r].ran
                               /\ db' = db
                               /\ files' = files
                               /\ loads' = loads
              IN  IF id < 1 \/ id > Len(db)
                  THEN req'[r].status = 404 /\ untouched
                  ELSE IF db[id].audio_path = NoPath \/ db[id].audio_path \notin files
                  THEN req'[r].status = 400 /\ untouched
                  ELSE req'[r].status = 0 /\ req'[r].pc = "load"]_vars

\* C7 witness: one request was answered 400 for an entry whose audio file is
\* missing, and that entry still has the content it was created with.
C7_Witness ==
    \E r \in Reqs :
        /\ req[r].kind = "retranscribe"
        /\ req[r].status = 400
        /\ req[r].jid \in DOMAIN db
        /\ db[req[r].jid].audio_path = MissingPath
        /\ db[req[r].jid].content \in EntryTexts
        /\ ~req[r].ran

\* C8: the model and its processor are each loaded at most once in the
\* lifetime of the process.
C8_LoadedAtMostOnce == loads.processor <= 1 /\ loads.model <= 1

\* C9: clean_text is idempotent, and a text of whitespace alone (or empty)
\* cleans to the empty text.
C9_CleanTextIdempotent ==
    /\ Len(cleanOut) = 2 => cleanOut[2] = cleanOut[1]
    /\ (Len(cleanOut) >= 1 /\ \A i \in 1..Len(cleanIn) : cleanIn[i] \in Whitespace)
          => cleanOut[1] = <<>>

\* C9 witness: clean_text has been applied twice to a text it had to change.
C9_Witness ==
    /\ Len(cleanOut) = 2
    /\ cleanIn = <<" ", "a", "\t">>
    /\ cleanOut[1] = <<"A", ".">>

\* C10: while one request is inside model.generate, every other request whose
\* next step belongs to the event loop can take that step.
C10_OthersRunDuringInference ==
    \A r1, r2 \in Reqs :
        (r1 # r2 /\ req[r1].pc = "generate" /\ req[r2].pc \in {"start", "write", "close", "resume"})
            => ENABLED Step(r2)
====
